---- MODULE Spec2Model ----
(***************************************************************************)
(* State-machine model of abstract-godbus (package main, dbusAbstraction): *)
(* session bootstrap, the per-sender subscription bookkeeping of           *)
(* ListenSignalFromSender, the signalsHandler fan-in loop and GetSignal.   *)
(*                                                                         *)
(* The repository holds three copies of the type.  src/abstraction.go      *)
(* lines 1-174 is the full one (conn, recv, sigmap, sigsenders); lines     *)
(* 176-226 of the same file is an earlier copy whose only member is conn   *)
(* and whose InitSession has no re-initialisation guard; the third         *)
(* (src/unnamed/part_000) has the guarded InitSession of the full copy.    *)
(* The variable impl says which copy the process was built from.           *)
(*                                                                         *)
(* Go channels are heap objects: chans is the heap, a channel is named by  *)
(* its index in it, and sigmap maps a key to such an index (0: no entry).  *)
(***************************************************************************)
EXTENDS Integers, Sequences, FiniteSets, TLC

(* ------------------------------ bounds --------------------------------- *)
\* Capacity of a buffered delivery queue.  The code asks for 1024
\* (abstraction.go:111); the model scales it down so that a full queue is
\* reachable.
SigChanCap == 2
\* Capacity of the raw receive channel d.recv (1024 at abstraction.go:72),
\* scaled down likewise.
RecvCap == 2
\* Number of signal occurrences the bus emits towards this process.
MaxSignals == 3
\* Number of times an InitSession call gets as far as opening a connection.
MaxConnects == 2
\* Number of signal occurrences the bus emits while a subscription call is
\* followed statement by statement.
RaceSignals == 1

(* ------------------------------ inputs --------------------------------- *)
SessionTypes == {"SESSION", "SYSTEM"}
\* Bus names requested by InitSession ("" requests none).
OwnNames == {"", "app"}
\* The subscriptions the application asks for, as the arguments p, n, i, s of
\* ListenSignalFromSender: two signals of a sender "n" whose interface is
\* spelled like its bus name, and one signal of a sender "m" whose interface
\* "i" is not.
ListenInputs ==
    { [p |-> "/p", n |-> "n", i |-> "n", s |-> "s"],
      [p |-> "/p", n |-> "n", i |-> "n", s |-> "t"],
      [p |-> "/p", n |-> "m", i |-> "i", s |-> "s"] }
\* The signals the senders emit: sender, object path, interface, member.
BusInputs ==
    { [sender |-> "n", path |-> "/p", iface |-> "n", member |-> "s"],
      [sender |-> "n", path |-> "/p", iface |-> "n", member |-> "t"],
      [sender |-> "m", path |-> "/p", iface |-> "i", member |-> "s"] }
\* Two subscriptions whose names hold the separator of getGeneratedName, and
\* the signal the first of these senders emits.
DotInputs ==
    { [p |-> "/p", n |-> "a.b", i |-> "a.b", s |-> "c"],
      [p |-> "/p", n |-> "a", i |-> "a", s |-> "b.c"] }
DotBusInputs ==
    { [sender |-> "a.b", path |-> "/p", iface |-> "a.b", member |-> "c"] }
\* Two subscriptions to one sender "n" that differ in the object path, and
\* the signals that sender emits on each path.
PathInputs ==
    { [p |-> "/p", n |-> "n", i |-> "n", s |-> "s"],
      [p |-> "/q", n |-> "n", i |-> "n", s |-> "t"] }
PathBusInputs ==
    { [sender |-> "n", path |-> "/p", iface |-> "n", member |-> "s"],
      [sender |-> "n", path |-> "/q", iface |-> "n", member |-> "t"] }
\* Contexts that call the subscription API, and contexts that call GetSignal.
Callers == {"u1", "u2"}
Consumers == {"c1", "c2"}
Impls == {"full", "legacy"}

\* getGeneratedName: s, then ".", then m.
getGeneratedName(s, m) == s \o "." \o m

\* The Name field of a dbus.Signal as the bus client fills it: the
\* fully-qualified member name "interface.member".
SignalName(v) == v.iface \o "." \o v.member

\* Every string used as a sigmap key or as a GetSignal argument.
AllKeys ==
    {getGeneratedName(a.n, a.s) : a \in ListenInputs \cup DotInputs \cup PathInputs}
        \cup {SignalName(v) : v \in BusInputs \cup DotBusInputs \cup PathBusInputs}

VARIABLES
    impl,        \* which copy of dbusAbstraction the process uses
    conn,        \* d.conn: 0 is nil, k > 0 the k-th connection opened
    recvMade,    \* d.recv is non-nil
    recv,        \* contents of the channel d.recv: a sequence of signals
    sigmapMade,  \* d.sigmap is non-nil
    sigmap,      \* d.sigmap: key -> channel index, 0 when the key is absent
    sigsenders,  \* d.sigsenders
    chans,       \* the channels made so far: [cap, buf]
    panicked,    \* a goroutine panicked (nil dereference, write to nil map)
    connects,    \* bus side: connections opened by this process
    nameReqs,    \* bus side: RequestName calls received
    rules,       \* bus side: match rules added, in the order of the calls
    sigReg,      \* bus client: d.recv registered through conn.Signal
    nextId,      \* bus side: number of the next signal occurrence
    hpc,         \* signalsHandler goroutine: "off", "range" or "send"
    ht,          \* the dbusAbsSignal the handler is about to send
    hch,         \* the channel the handler is sending it on
    upc,         \* per API caller: position inside ListenSignalFromSender
    uarg,        \* per API caller: arguments p, n, i, s of the call
    ret,         \* per API caller: the error its last InitSession returned
    cpc,         \* per consumer: "idle" or "recv" (blocked at line 156)
    cch,         \* per consumer: channel it is receiving from
    cres,        \* per consumer: the error its last GetSignal returned
    hist         \* history: the fate of each occurrence, the bodies GetSignal
                 \* returned, the subscriptions made

dvars == <<conn, recvMade, recv, sigmapMade, sigmap, sigsenders, chans>>
busvars == <<connects, nameReqs, rules, sigReg, nextId>>
hvars == <<hpc, ht, hch>>
uvars == <<upc, uarg, ret>>
cvars == <<cpc, cch, cres>>
vars == <<impl, dvars, panicked, busvars, hvars, uvars, cvars, hist>>

NoArg == [p |-> "", n |-> "", i |-> "", s |-> ""]
NoSignal ==
    [id |-> 0, sender |-> "", path |-> "", iface |-> "", member |-> "",
     body |-> <<>>, sub |-> FALSE]

Init ==
    /\ impl \in Impls
    /\ conn = 0
    /\ recvMade = FALSE
    /\ recv = <<>>
    /\ sigmapMade = FALSE
    /\ sigmap = [k \in AllKeys |-> 0]
    /\ sigsenders = <<>>
    /\ chans = <<>>
    /\ panicked = FALSE
    /\ connects = 0
    /\ nameReqs = 0
    /\ rules = <<>>
    /\ sigReg = FALSE
    /\ nextId = 1
    /\ hpc = "off"
    /\ ht = NoSignal
    /\ hch = 0
    /\ upc = [u \in Callers |-> "idle"]
    /\ uarg = [u \in Callers |-> NoArg]
    /\ ret = [u \in Callers |-> ""]
    /\ cpc = [c \in Consumers |-> "idle"]
    /\ cch = [c \in Consumers |-> 0]
    /\ cres = [c \in Consumers |-> ""]
    /\ hist = [enq |-> <<>>, got |-> <<>>, dropped |-> {}, lost |-> {},
               pairs |-> {}, replaced |-> {}, again |-> FALSE]

(* ----------------------------- InitSession ----------------------------- *)
MutAlreadyInitializedAlways == TRUE

\* abstraction.go:47 - the guard of the full copy.
AlreadyInitialized == conn # 0

\* Outcomes of the bus client calls of InitSession: the connect fails, the
\* name request errors, the name is owned by someone else, or all succeed.
InitOutcomes(n) ==
    {"ConnectionError", "ok"}
        \cup (IF n # "" THEN {"RequestNameError", "NameUnavailable"} ELSE {})

\* InitSession of the full copy (abstraction.go:43-75).  Line 73, which would
\* start signalsHandler, is a comment: no goroutine is started.
InitSession(u, s, n) ==
    /\ impl = "full" /\ ~panicked /\ upc[u] = "idle"
    /\ IF AlreadyInitialized
       THEN /\ ret' = [ret EXCEPT ![u] = "AlreadyInitialized"]
            /\ UNCHANGED <<dvars, busvars>>
       ELSE /\ connects < MaxConnects
            /\ \E o \in InitOutcomes(n) :
                 /\ ret' = [ret EXCEPT ![u] = IF o = "ok" THEN "" ELSE o]
                 /\ connects' = IF o = "ConnectionError" THEN connects ELSE connects + 1
                 /\ nameReqs' = IF n # "" /\ o # "ConnectionError"
                                THEN nameReqs + 1 ELSE nameReqs
                 /\ IF o = "ok"
                    THEN /\ conn' = connects + 1
                         /\ sigmapMade' = TRUE
                         /\ sigmap' = [k \in AllKeys |-> 0]
                         /\ recvMade' = TRUE
                         /\ recv' = <<>>
                         /\ UNCHANGED <<sigsenders, chans>>
                    ELSE UNCHANGED dvars
                 /\ UNCHANGED <<rules, sigReg, nextId>>
    /\ UNCHANGED <<impl, panicked, hvars, upc, uarg, cvars, hist>>

\* InitSession of the earlier copy (abstraction.go:202-226): no guard, and
\* d.conn is assigned before the name is requested.
InitSessionLegacy(u, s, n) ==
    /\ impl = "legacy" /\ ~panicked /\ upc[u] = "idle"
    /\ connects < MaxConnects
    /\ \E o \in InitOutcomes(n) :
         /\ ret' = [ret EXCEPT ![u] = IF o = "ok" THEN "" ELSE o]
         /\ connects' = IF o = "ConnectionError" THEN connects ELSE connects + 1
         /\ nameReqs' = IF n # "" /\ o # "ConnectionError"
                        THEN nameReqs + 1 ELSE nameReqs
         /\ conn' = IF o = "ConnectionError" THEN conn ELSE connects + 1
    /\ UNCHANGED <<impl, recvMade, recv, sigmapMade, sigmap, sigsenders, chans,
                   panicked, rules, sigReg, nextId, hvars, upc, uarg, cvars, hist>>

(* ----------------------- ListenSignalFromSender ------------------------ *)
MutListenedNever(n) == FALSE

\* abstraction.go:98-103 - the scan of d.sigsenders for n.
Listened(n) == \E k \in 1..Len(sigsenders) : sigsenders[k] = n

\* abstraction.go:106 - make(chan *dbusAbsSignal): no buffer.
UnbufferedCap == 0

\* The ", ok" map reads of lines 105, 155 and 167 (a nil map reads as empty).
HasKey(k) == sigmap[k] # 0

\* A new channel of capacity c, as make(chan ..., c) returns it.
NewChan(c) == [cap |-> c, buf |-> <<>>]

MutKeyOfSenderOnly(a) == getGeneratedName(a.n, "s")

MutMapInsertNoEntry(a, c) ==
    /\ chans' = Append(chans, NewChan(c))
    /\ hist' = [hist EXCEPT !.pairs = @ \cup {<<a.n, a.s>>}]
    /\ UNCHANGED <<sigmap, panicked>>

\* The key of a call with arguments a, lines 105, 106 and 111.
KeyOf(a) == getGeneratedName(a.n, a.s)

\* The rule line 110 asks the bus for: path p, interface i, sender n.
MatchRule(a) == [path |-> a.p, iface |-> a.i, sender |-> a.n]

\* d.sigmap[key] = make(chan ..., c), the last statement of either branch: a
\* new channel on the heap and the map entry set to it; a write to a nil map
\* panics.  The history notes the subscription and an entry that the write
\* replaces.
MapInsert(a, c) ==
    IF sigmapMade
    THEN /\ chans' = Append(chans, NewChan(c))
         /\ sigmap' = [sigmap EXCEPT ![KeyOf(a)] = Len(chans) + 1]
         /\ UNCHANGED panicked
         /\ hist' = [hist EXCEPT
                        !.replaced = IF sigmap[KeyOf(a)] # 0
                                     THEN @ \cup {sigmap[KeyOf(a)]} ELSE @,
                        !.pairs = @ \cup {<<a.n, a.s>>}]
    ELSE /\ panicked' = TRUE
         /\ UNCHANGED <<chans, sigmap, hist>>

\* ListenSignalFromSender(p, n, i, s), lines 97-113, run by a caller that no
\* other caller of the subscription API interleaves with.
ListenSignalFromSender(u, a) ==
    /\ impl = "full" /\ ~panicked /\ upc[u] = "idle"
    /\ IF Listened(a.n)
       THEN /\ IF HasKey(KeyOf(a))
               THEN /\ hist' = [hist EXCEPT !.pairs = @ \cup {<<a.n, a.s>>},
                                             !.again = TRUE]
                    /\ UNCHANGED <<chans, sigmap, panicked>>
               ELSE MapInsert(a, UnbufferedCap)
            /\ UNCHANGED <<sigsenders, rules>>
       ELSE /\ sigsenders' = Append(sigsenders, a.n)
            /\ IF conn = 0
               THEN /\ panicked' = TRUE
                    /\ UNCHANGED <<rules, chans, sigmap, hist>>
               ELSE /\ rules' = Append(rules, MatchRule(a))
                    /\ MapInsert(a, SigChanCap)
    /\ UNCHANGED <<impl, conn, recvMade, recv, sigmapMade, connects, nameReqs,
                   sigReg, nextId, hvars, uvars, cvars>>

\* The same call with the bus's reply to AddMatch as an input: the bus
\* installs the rule (ok) or answers with an error and installs nothing.
\* Line 110 drops the *dbus.Call that Call returns, so the reply changes
\* nothing of what the method does next.
ListenSignalFromSenderReply(u, a, ok) ==
    /\ impl = "full" /\ ~panicked /\ upc[u] = "idle"
    /\ IF Listened(a.n)
       THEN /\ IF HasKey(KeyOf(a))
               THEN /\ hist' = [hist EXCEPT !.pairs = @ \cup {<<a.n, a.s>>},
                                             !.again = TRUE]
                    /\ UNCHANGED <<chans, sigmap, panicked>>
               ELSE MapInsert(a, UnbufferedCap)
            /\ UNCHANGED <<sigsenders, rules>>
       ELSE /\ sigsenders' = Append(sigsenders, a.n)
            /\ IF conn = 0
               THEN /\ panicked' = TRUE
                    /\ UNCHANGED <<rules, chans, sigmap, hist>>
               ELSE /\ rules' = IF ok THEN Append(rules, MatchRule(a)) ELSE rules
                    /\ MapInsert(a, SigChanCap)
    /\ UNCHANGED <<impl, conn, recvMade, recv, sigmapMade, connects, nameReqs,
                   sigReg, nextId, hvars, uvars, cvars>>

\* The same call as the steps that another caller can interleave with.
\* Lines 97-104: the call, the scan, and the branch on listened.
ListenCall(u, a) ==
    /\ impl = "full" /\ ~panicked /\ upc[u] = "idle"
    /\ uarg' = [uarg EXCEPT ![u] = a]
    /\ upc' = [upc EXCEPT ![u] = IF Listened(a.n) THEN "check" ELSE "append"]
    /\ UNCHANGED <<impl, dvars, panicked, busvars, hvars, ret, cvars, hist>>

\* The call returns (it has no result).
ListenReturn(u) ==
    /\ upc' = [upc EXCEPT ![u] = "idle"]
    /\ uarg' = [uarg EXCEPT ![u] = NoArg]
    /\ UNCHANGED ret

\* Line 105: is there an entry for the key already?  If so the call returns.
ListenCheck(u) ==
    /\ ~panicked /\ upc[u] = "check"
    /\ IF HasKey(KeyOf(uarg[u]))
       THEN /\ ListenReturn(u)
            /\ hist' = [hist EXCEPT !.pairs = @ \cup {<<uarg[u].n, uarg[u].s>>},
                                     !.again = TRUE]
       ELSE /\ upc' = [upc EXCEPT ![u] = "insert"]
            /\ UNCHANGED <<uarg, ret, hist>>
    /\ UNCHANGED <<impl, dvars, panicked, busvars, hvars, cvars>>

\* Line 106: the entry of a sender that is listened to already.
ListenInsert(u) ==
    /\ ~panicked /\ upc[u] = "insert"
    /\ MapInsert(uarg[u], UnbufferedCap)
    /\ IF sigmapMade THEN ListenReturn(u) ELSE UNCHANGED uvars
    /\ UNCHANGED <<impl, conn, recvMade, recv, sigmapMade, sigsenders,
                   busvars, hvars, cvars>>

\* Line 109: d.sigsenders = append(d.sigsenders, n).
ListenAppend(u) ==
    /\ ~panicked /\ upc[u] = "append"
    /\ sigsenders' = Append(sigsenders, uarg[u].n)
    /\ upc' = [upc EXCEPT ![u] = "addmatch"]
    /\ UNCHANGED <<impl, conn, recvMade, recv, sigmapMade, sigmap, chans, panicked,
                   busvars, hvars, uarg, ret, cvars, hist>>

\* Line 110: the AddMatch call on the bus object; d.conn nil panics.  The
\* reply of the call is not looked at.
ListenAddMatch(u) ==
    /\ ~panicked /\ upc[u] = "addmatch"
    /\ IF conn = 0
       THEN /\ panicked' = TRUE
            /\ UNCHANGED <<rules, upc>>
       ELSE /\ rules' = Append(rules, MatchRule(uarg[u]))
            /\ upc' = [upc EXCEPT ![u] = "make"]
            /\ UNCHANGED panicked
    /\ UNCHANGED <<impl, dvars, connects, nameReqs, sigReg, nextId, hvars,
                   uarg, ret, cvars, hist>>

\* Line 111: the entry of a sender that was not listened to, capacity 1024.
ListenMake(u) ==
    /\ ~panicked /\ upc[u] = "make"
    /\ MapInsert(uarg[u], SigChanCap)
    /\ IF sigmapMade THEN ListenReturn(u) ELSE UNCHANGED uvars
    /\ UNCHANGED <<impl, conn, recvMade, recv, sigmapMade, sigsenders,
                   busvars, hvars, cvars>>

(* ------------------------------ the bus -------------------------------- *)
\* The bus forwards a signal to this connection when an added match rule
\* admits it: same path, interface and sender (the rule of line 110).
Admitted(v) ==
    \E k \in 1..Len(rules) :
        /\ rules[k].path = v.path
        /\ rules[k].iface = v.iface
        /\ rules[k].sender = v.sender

\* One signal occurrence reaches the connection, the max-th at most.  The bus client pushes it
\* into the channel registered with conn.Signal (line 165), waiting while
\* that channel is full; with no channel registered the client discards it.
\* The body of the k-th occurrence is the argument list [k]; the history
\* field sub says whether a subscription to (sender, member) had returned
\* when the occurrence arrived.
BusSignal(e, max) ==
    LET v == [id |-> nextId, sender |-> e.sender, path |-> e.path,
              iface |-> e.iface, member |-> e.member, body |-> <<nextId>>,
              sub |-> <<e.sender, e.member>> \in hist.pairs]
    IN  /\ impl = "full" /\ ~panicked
        /\ nextId <= max
        /\ Admitted(v)
        /\ nextId' = nextId + 1
        /\ IF sigReg
           THEN /\ Len(recv) < RecvCap
                /\ recv' = Append(recv, v)
                /\ UNCHANGED hist
           ELSE /\ hist' = [hist EXCEPT !.lost = @ \cup {v.id}]
                /\ UNCHANGED recv
        /\ UNCHANGED <<impl, conn, recvMade, sigmapMade, sigmap, sigsenders, chans,
                       panicked, connects, nameReqs, rules, sigReg, hvars, uvars,
                       cvars>>

(* --------------------------- signalsHandler ---------------------------- *)
\* Line 165, reached when some code of the package runs signalsHandler (no
\* code in the repository does: the go statement of line 73 is a comment).
\* d.conn.Signal(d.recv) registers the receive channel; a nil d.conn panics.
StartSignalsHandler ==
    /\ impl = "full" /\ ~panicked /\ hpc = "off"
    /\ IF conn = 0
       THEN /\ panicked' = TRUE
            /\ UNCHANGED <<sigReg, hpc>>
       ELSE /\ sigReg' = TRUE
            /\ hpc' = "range"
            /\ UNCHANGED panicked
    /\ UNCHANGED <<impl, dvars, connects, nameReqs, rules, nextId, ht, hch,
                   uvars, cvars, hist>>

\* Lines 167 and 171: the key the loop looks up is v.Name.
HandlerKey(v) == SignalName(v)

MutDropCreates(v) ==
    /\ chans' = Append(chans, [cap |-> SigChanCap, buf |-> <<v>>])
    /\ sigmap' = [sigmap EXCEPT ![HandlerKey(v)] = Len(chans) + 1]
    /\ UNCHANGED <<hvars, hist>>

\* Line 167 with ok false: the body of the if is skipped, the signal is gone.
Drop(v) ==
    /\ hist' = [hist EXCEPT !.dropped = @ \cup {v.id}]
    /\ UNCHANGED <<hvars, sigmap, chans>>

\* Lines 166-170: take the next signal from d.recv and look its key up; with
\* no entry it is dropped, otherwise the loop goes on to send it (the channel
\* operand of line 171 is read with the lookup of line 167).
HandlerReceive ==
    /\ ~panicked /\ hpc = "range" /\ recv # <<>>
    /\ recv' = Tail(recv)
    /\ LET v == Head(recv) IN
         IF HasKey(HandlerKey(v))
         THEN /\ hpc' = "send"
              /\ ht' = v
              /\ hch' = sigmap[HandlerKey(v)]
              /\ UNCHANGED <<hist, sigmap, chans>>
         ELSE Drop(v)
    /\ UNCHANGED <<impl, conn, recvMade, sigmapMade, sigsenders,
                   panicked, busvars, uvars, cvars>>

\* A channel send can complete into the buffer when the buffer has room.
HasRoom(ch) == Len(chans[ch].buf) < chans[ch].cap

\* Line 171 on a buffered channel: blocks while the buffer is full.
HandlerSend ==
    /\ ~panicked /\ hpc = "send"
    /\ HasRoom(hch)
    /\ chans' = [chans EXCEPT ![hch].buf = Append(@, ht)]
    /\ hist' = [hist EXCEPT !.enq = Append(@, <<hch, ht.id>>)]
    /\ hpc' = "range"
    /\ ht' = NoSignal
    /\ hch' = 0
    /\ UNCHANGED <<impl, conn, recvMade, recv, sigmapMade, sigmap, sigsenders,
                   panicked, busvars, uvars, cvars>>

(* ------------------------------ GetSignal ------------------------------ *)
NotListened == "NotListened"

MutMissBlocks(c) ==
    /\ cpc' = [cpc EXCEPT ![c] = "recv"]
    /\ UNCHANGED <<cch, cres>>

\* Line 159: return nil, errors.New("... not listened signal").
Miss(c) ==
    /\ cres' = [cres EXCEPT ![c] = NotListened]
    /\ UNCHANGED <<cpc, cch>>

\* Lines 155-156 and 159: with no entry the call returns the error at once;
\* otherwise it goes on to receive from the entry's channel.
GetSignalCall(c, k) ==
    /\ impl = "full" /\ ~panicked /\ cpc[c] = "idle"
    /\ IF HasKey(k)
       THEN /\ cpc' = [cpc EXCEPT ![c] = "recv"]
            /\ cch' = [cch EXCEPT ![c] = sigmap[k]]
            /\ UNCHANGED cres
       ELSE Miss(c)
    /\ UNCHANGED <<impl, dvars, panicked, busvars, hvars, uvars, hist>>

MutNextOfLast(buf) == buf[Len(buf)]

\* The element a channel receive takes: the oldest one.
NextOf(buf) == Head(buf)

MutRestOfKeepsAll(buf) == buf

\* What the receive leaves in the buffer.
RestOf(buf) == Tail(buf)

\* Lines 156-157 on a channel with something buffered: t := <-ch, return
\* t.recv.Body, nil.
GetSignalReceive(c) ==
    /\ ~panicked /\ cpc[c] = "recv"
    /\ cch[c] # 0
    /\ chans[cch[c]].buf # <<>>
    /\ LET t == NextOf(chans[cch[c]].buf) IN
         /\ chans' = [chans EXCEPT ![cch[c]].buf = RestOf(@)]
         /\ cres' = [cres EXCEPT ![c] = ""]
         /\ hist' = [hist EXCEPT !.got = Append(@, <<cch[c], t.body>>)]
    /\ cpc' = [cpc EXCEPT ![c] = "idle"]
    /\ cch' = [cch EXCEPT ![c] = 0]
    /\ UNCHANGED <<impl, conn, recvMade, recv, sigmapMade, sigmap, sigsenders,
                   panicked, busvars, hvars, uvars>>

\* Line 171 meeting line 156 on an unbuffered channel: the send completes
\* only by handing the value to a receiver that is waiting on that channel.
Rendezvous(c) ==
    /\ ~panicked /\ hpc = "send" /\ cpc[c] = "recv"
    /\ cch[c] = hch
    /\ chans[hch].cap = 0
    /\ cres' = [cres EXCEPT ![c] = ""]
    /\ hist' = [hist EXCEPT !.enq = Append(@, <<hch, ht.id>>),
                            !.got = Append(@, <<hch, ht.body>>)]
    /\ cpc' = [cpc EXCEPT ![c] = "idle"]
    /\ cch' = [cch EXCEPT ![c] = 0]
    /\ hpc' = "range"
    /\ ht' = NoSignal
    /\ hch' = 0
    /\ UNCHANGED <<impl, dvars, panicked, busvars, uvars>>

(* --------------------------- specifications ---------------------------- *)
\* InitSession calls that request one of the bus names of N.
SessionStep(u, N) ==
    \/ \E s \in SessionTypes, n \in N : InitSession(u, s, n)
    \/ \E s \in SessionTypes, n \in N : InitSessionLegacy(u, s, n)

ListenSteps(u) ==
    \/ \E a \in ListenInputs : ListenCall(u, a)
    \/ ListenCheck(u)
    \/ ListenInsert(u)
    \/ ListenAppend(u)
    \/ ListenAddMatch(u)
    \/ ListenMake(u)

\* The senders emit signals of E, max of them at most.
BusStep(E, max) ==
    \E e \in E : BusSignal(e, max)

HandlerStep ==
    \/ StartSignalsHandler
    \/ HandlerReceive
    \/ HandlerSend

ConsumerStep(c) ==
    \/ \E k \in AllKeys : GetSignalCall(c, k)
    \/ GetSignalReceive(c)
    \/ Rendezvous(c)

\* One context calls the session and subscription API (requesting no bus
\* name) and one calls GetSignal; the handler and the bus run beside them.
Next ==
    \/ SessionStep("u1", {""})
    \/ \E a \in ListenInputs : ListenSignalFromSender("u1", a)
    \/ BusStep(BusInputs, MaxSignals)
    \/ HandlerStep
    \/ ConsumerStep("c1")

Spec == Init /\ [][Next]_vars

\* The subscriptions to, and the signals of, the sender "n" alone, with as
\* many occurrences as it takes to fill a buffered queue, leave the handler
\* with one more for it, and have yet another waiting in d.recv.
StallNext ==
    \/ SessionStep("u1", {""})
    \/ \E a \in {x \in ListenInputs : x.n = "n"} : ListenSignalFromSender("u1", a)
    \/ BusStep({e \in BusInputs : e.sender = "n"}, SigChanCap + 2)
    \/ HandlerStep
    \/ ConsumerStep("c1")

\* The scheduler runs a goroutine that can take a step: the handler's
\* receive and send, and a consumer's receive, happen when they are possible.
\* Nothing makes the application call the API or the senders emit.
FairSpec ==
    /\ Init /\ [][StallNext]_vars
    /\ WF_vars(HandlerReceive)
    /\ WF_vars(HandlerSend)
    /\ WF_vars(GetSignalReceive("c1"))
    /\ WF_vars(Rendezvous("c1"))

\* Two contexts call the subscription API at the same time.
ConcNext ==
    \/ SessionStep("u1", {""})
    \/ \E u \in Callers : ListenSteps(u)

ConcSpec == Init /\ [][ConcNext]_vars

\* The session and subscription API alone, with every outcome of the name
\* request.
SessionNext ==
    \/ SessionStep("u1", OwnNames)
    \/ \E a \in ListenInputs : ListenSignalFromSender("u1", a)

SessionSpec == Init /\ [][SessionNext]_vars

\* The session and subscription API with a bus that may refuse a match rule.
ReplyNext ==
    \/ SessionStep("u1", {""})
    \/ \E a \in ListenInputs, ok \in BOOLEAN : ListenSignalFromSenderReply("u1", a, ok)

ReplySpec == Init /\ [][ReplyNext]_vars

\* One context inside ListenSignalFromSender, statement by statement, while
\* the loop runs and another context calls GetSignal.
RaceNext ==
    \/ SessionStep("u1", {""})
    \/ ListenSteps("u1")
    \/ BusStep(BusInputs, RaceSignals)
    \/ HandlerStep
    \/ ConsumerStep("c1")

RaceSpec == Init /\ [][RaceNext]_vars

\* Subscriptions whose names hold the separator, with the loop and a
\* consumer running.
DotNext ==
    \/ SessionStep("u1", {""})
    \/ \E a \in DotInputs : ListenSignalFromSender("u1", a)
    \/ BusStep(DotBusInputs, MaxSignals)
    \/ HandlerStep
    \/ \E k \in AllKeys : GetSignalCall("c1", k)
    \/ GetSignalReceive("c1")

DotSpec == Init /\ [][DotNext]_vars

\* Two contexts call GetSignal while the loop delivers the two signals of
\* the sender "n".
PairNext ==
    \/ SessionStep("u1", {""})
    \/ \E a \in {x \in ListenInputs : x.n = "n"} : ListenSignalFromSender("u1", a)
    \/ BusStep({e \in BusInputs : e.sender = "n"}, MaxSignals)
    \/ HandlerStep
    \/ \E c \in Consumers : ConsumerStep(c)

PairSpec == Init /\ [][PairNext]_vars

\* Subscriptions to one sender on two object paths, with the bus emitting
\* that sender's signals.
PathNext ==
    \/ SessionStep("u1", {""})
    \/ \E a \in PathInputs : ListenSignalFromSender("u1", a)
    \/ BusStep(PathBusInputs, MaxSignals)
    \/ HandlerStep
    \/ \E k \in AllKeys : GetSignalCall("c1", k)
    \/ GetSignalReceive("c1")

PathSpec == Init /\ [][PathNext]_vars

(* ------------------------- operators of the claims --------------------- *)
\* How many times x occurs in the sequence q.
TimesIn(q, x) == Cardinality({k \in DOMAIN q : q[k] = x})

\* How many AddMatch calls were issued for sender n.
RulesFor(n) == Cardinality({k \in DOMAIN rules : rules[k].sender = n})

Chans == 1..Len(chans)

\* The occurrence numbers enqueued on channel ch, in the order of the sends.
EnqOf(ch) ==
    LET q == SelectSeq(hist.enq, LAMBDA x : x[1] = ch)
    IN  [k \in 1..Len(q) |-> q[k][2]]

\* The argument lists GetSignal returned from channel ch, in order.
GotOf(ch) ==
    LET q == SelectSeq(hist.got, LAMBDA x : x[1] = ch)
    IN  [k \in 1..Len(q) |-> q[k][2]]

\* The argument lists waiting in channel ch, oldest first.
Pending(ch) == [k \in 1..Len(chans[ch].buf) |-> chans[ch].buf[k].body]

(* -------------------------------- C1 ----------------------------------- *)
\* C1: once a subscription to (n, s) has returned, an occurrence the bus
\* delivers from sender n with member s is not discarded by the bus client,
\* and the loop, when it takes it from d.recv, goes on to send it on the
\* queue keyed n.s.  (The safety half of the end-to-end delivery claim: an
\* occurrence that is discarded can never be returned by GetSignal.)
C1_SubscribedOccurrenceReachesItsQueue ==
    [][ /\ \A e \in BusInputs :
             (BusSignal(e, MaxSignals) /\ <<e.sender, e.member>> \in hist.pairs)
                 => hist'.lost = hist.lost
        /\ (HandlerReceive /\ Head(recv).sub)
             => /\ hpc' = "send"
                /\ hch' = sigmap[getGeneratedName(Head(recv).sender, Head(recv).member)]
      ]_vars

\* The second half alone, the handler being started by hand before any
\* signal arrives: the key the loop looks up is the key of the subscription.
C1_LoopFindsTheSubscribedQueue ==
    [][ (HandlerReceive /\ Head(recv).sub)
             => /\ hpc' = "send"
                /\ hch' = sigmap[getGeneratedName(Head(recv).sender, Head(recv).member)]
      ]_vars

(* -------------------------------- C2 ----------------------------------- *)
\* C2: a ListenSignalFromSender call for a pair (n, s) whose subscription has
\* returned before issues no AddMatch, leaves d.sigsenders as it is with n in
\* it once, and leaves the map entry of n.s and every queue's contents as
\* they are.
C2_ResubscriptionIsNoOp ==
    [][ \A a \in ListenInputs :
          (<<a.n, a.s>> \in hist.pairs /\ ListenSignalFromSender("u1", a))
             => /\ rules' = rules
                /\ sigsenders' = sigsenders
                /\ TimesIn(sigsenders', a.n) = 1
                /\ sigmap' = sigmap
                /\ chans' = chans
      ]_vars

\* A pair was subscribed to again, after a subscription of another sender,
\* while envelopes were waiting in a queue.
C2_Witness ==
    /\ hist.again
    /\ Len(sigsenders) = 2
    /\ \E ch \in Chans : chans[ch].buf # <<>>

(* -------------------------------- C3 ----------------------------------- *)
\* C3: when subscriptions to (n, s1) and (n, s2), s1 # s2, have returned,
\* exactly one AddMatch was issued for n and the map holds two different
\* queues under n.s1 and n.s2; and no step changes the contents of two
\* queues.
C3_TwoSignalsOneRule ==
    /\ [](\A a, b \in ListenInputs :
            (/\ a.n = b.n /\ a.s # b.s
             /\ <<a.n, a.s>> \in hist.pairs /\ <<b.n, b.s>> \in hist.pairs)
               => /\ RulesFor(a.n) = 1
                  /\ sigmap[KeyOf(a)] # 0
                  /\ sigmap[KeyOf(b)] # 0
                  /\ sigmap[KeyOf(a)] # sigmap[KeyOf(b)])
    /\ [][ \A c1, c2 \in Chans :
             (c1 # c2 /\ chans'[c1].buf # chans[c1].buf)
                => chans'[c2].buf = chans[c2].buf ]_vars

\* Both signals of sender "n" are subscribed to and an envelope waits in the
\* queue of one of them.
C3_Witness ==
    /\ {<<"n", "s">>, <<"n", "t">>} \subseteq hist.pairs
    /\ \E a \in ListenInputs :
         /\ a.n = "n"
         /\ sigmap[KeyOf(a)] # 0
         /\ chans[sigmap[KeyOf(a)]].buf # <<>>

(* -------------------------------- C4 ----------------------------------- *)
\* C4: every delivery queue has the one fixed capacity and holds no more
\* envelopes than that.
C4_OneFixedCapacity ==
    \A ch \in Chans :
        /\ chans[ch].cap = SigChanCap
        /\ Len(chans[ch].buf) <= SigChanCap

(* -------------------------------- C5 ----------------------------------- *)
\* C5: for every queue, what GetSignal has returned from it, followed by what
\* waits in it, is what the loop enqueued on it, in that order; and the loop
\* enqueued in the order the bus produced (occurrence numbers ascend), none
\* twice.
C5_FifoPerIdentity ==
    \A ch \in Chans :
        /\ GotOf(ch) \o Pending(ch) = [k \in 1..Len(EnqOf(ch)) |-> <<EnqOf(ch)[k]>>]
        /\ \A j, k \in 1..Len(EnqOf(ch)) : j < k => EnqOf(ch)[j] < EnqOf(ch)[k]

\* GetSignal returned two envelopes of one queue while a third waited in it.
C5_Witness ==
    \E ch \in Chans : Len(GotOf(ch)) >= 2 /\ chans[ch].buf # <<>>

(* -------------------------------- C6 ----------------------------------- *)
\* The occurrence numbered id waits in d.recv for a key B that has a queue
\* and a consumer blocked in GetSignal(B), behind the handler, which is
\* blocked sending to the buffered and full queue of another key A.  (The
\* one consumer being in GetSignal(B), nobody drains A.)
StalledBehindFullQueue(id) ==
    /\ hpc = "send"
    /\ chans[hch].cap > 0
    /\ Len(chans[hch].buf) = chans[hch].cap
    /\ \E k \in DOMAIN recv :
         /\ recv[k].id = id
         /\ HasKey(HandlerKey(recv[k]))
         /\ sigmap[HandlerKey(recv[k])] # hch
         /\ cpc["c1"] = "recv"
         /\ cch["c1"] = sigmap[HandlerKey(recv[k])]

\* C6: an occurrence for a subscribed identity that arrives while the queue
\* of another identity is full is enqueued in the end, whether or not the
\* full queue is ever drained.
C6_FullQueueDoesNotStallOthers ==
    \A id \in 1..(SigChanCap + 2) :
        StalledBehindFullQueue(id) ~> (\E k \in DOMAIN hist.enq : hist.enq[k][2] = id)

(* -------------------------------- C7 ----------------------------------- *)
\* C7: a GetSignal call for a key with no entry in d.sigmap (a nil map has
\* none) returns the NotListened error in the step of the call, without
\* going on to the channel receive, and changes nothing of d, of the bus or
\* of the handler.
C7_UnsubscribedGetSignalFails ==
    [][ \A c \in Consumers, k \in AllKeys :
          (GetSignalCall(c, k) /\ sigmap[k] = 0)
             => /\ cres'[c] = NotListened
                /\ cpc'[c] = "idle"
                /\ UNCHANGED <<dvars, busvars, hvars, panicked>>
      ]_vars

\* GetSignal returned NotListened while another identity was subscribed to
\* and had an envelope waiting.
C7_Witness ==
    /\ cres["c1"] = NotListened
    /\ cpc["c1"] = "idle"
    /\ \E ch \in Chans : chans[ch].buf # <<>>

\* The same before any InitSession call.
C7_WitnessBeforeInit ==
    /\ cres["c1"] = NotListened
    /\ conn = 0 /\ ~sigmapMade

(* -------------------------------- C8 ----------------------------------- *)
\* C8: when the loop takes an occurrence whose key has no entry in d.sigmap,
\* the step adds no entry, makes no channel and changes no queue's contents;
\* and an occurrence so discarded is never enqueued and never returned by
\* GetSignal.
C8_UnsubscribedOccurrenceIsDiscarded ==
    /\ [][ (HandlerReceive /\ sigmap[HandlerKey(Head(recv))] = 0)
             => /\ sigmap' = sigmap
                /\ chans' = chans
                /\ hpc' = "range"
                /\ Head(recv).id \in hist'.dropped ]_vars
    /\ [](\A id \in hist.dropped :
            /\ \A k \in DOMAIN hist.enq : hist.enq[k][2] # id
            /\ \A k \in DOMAIN hist.got : hist.got[k][2] # <<id>>
            /\ \A ch \in Chans : \A k \in DOMAIN chans[ch].buf :
                  chans[ch].buf[k].id # id
            /\ ht.id # id)

\* The loop discarded an occurrence while another identity's queue held an
\* envelope, and GetSignal has returned an envelope since.
C8_Witness ==
    /\ hist.dropped # {}
    /\ hist.got # <<>>
    /\ \E ch \in Chans : chans[ch].buf # <<>>

(* -------------------------------- C9 ----------------------------------- *)
\* C9: an InitSession call on an instance whose d.conn is set returns
\* AlreadyInitialized and changes nothing of d, opens no connection and
\* requests no name.
C9_SecondInitSessionIsRejected ==
    [][ \A s \in SessionTypes, n \in OwnNames :
          (conn # 0 /\ (InitSession("u1", s, n) \/ InitSessionLegacy("u1", s, n)))
             => /\ ret'["u1"] = "AlreadyInitialized"
                /\ UNCHANGED <<dvars, busvars>>
      ]_vars

\* The same of the full copy alone (abstraction.go:43-75), which holds.
C9_FullCopyRejects ==
    [][ \A s \in SessionTypes, n \in OwnNames :
          (conn # 0 /\ InitSession("u1", s, n))
             => /\ ret'["u1"] = "AlreadyInitialized"
                /\ UNCHANGED <<dvars, busvars>>
      ]_vars

(* -------------------------------- C10 ---------------------------------- *)
\* C10: with two contexts inside ListenSignalFromSender at the same time, at
\* most one AddMatch is issued for a sender, a sender is in d.sigsenders at
\* most once (exactly once when a subscription to it has returned), and no
\* queue put in the map is replaced by another.
C10_SubscriptionIsAtomic ==
    \A a \in ListenInputs :
        /\ RulesFor(a.n) <= 1
        /\ TimesIn(sigsenders, a.n) <= 1
        /\ (\E s \in {b.s : b \in ListenInputs} : <<a.n, s>> \in hist.pairs)
              => TimesIn(sigsenders, a.n) = 1
        /\ hist.replaced = {}

(* -------------------------------- C11 ---------------------------------- *)
\* The keys that have an entry in d.sigmap.
KeySet == {k \in AllKeys : HasKey(k)}

\* C11: while the process runs, a key has an entry in d.sigmap exactly when a
\* ListenSignalFromSender call for a pair with that key has returned; a step
\* of GetSignal or of the loop leaves the set of keys as it is, and no step
\* of any operation takes a key out of it.
C11_KeyIffSubscribed ==
    /\ [](~panicked =>
            \A k \in AllKeys :
                HasKey(k) <=> (\E pr \in hist.pairs : getGeneratedName(pr[1], pr[2]) = k))
    /\ [][ /\ KeySet \subseteq {k \in AllKeys : sigmap'[k] # 0}
           /\ (\/ HandlerStep
               \/ \E c \in Consumers : ConsumerStep(c))
                 => sigmap' = sigmap ]_vars

\* One identity is subscribed to and another is not; the loop has met an
\* occurrence without an entry and GetSignal a key without one.
C11_Witness ==
    /\ KeySet # {}
    /\ hist.dropped # {}
    /\ cres["c1"] = NotListened
    /\ \E a \in ListenInputs : ~HasKey(KeyOf(a))

(* -------------------------------- C12 ---------------------------------- *)
\* C12: while the process runs and no ListenSignalFromSender call is in
\* progress, no name is in d.sigsenders twice and every name in it has a match
\* rule installed at the bus, whatever the bus replies to AddMatch.
C12_RegistryInvariant ==
    (~panicked /\ \A u \in Callers : upc[u] = "idle")
        => \A k \in DOMAIN sigsenders :
               /\ TimesIn(sigsenders, sigsenders[k]) = 1
               /\ RulesFor(sigsenders[k]) >= 1

(* -------------------------------- C13 ---------------------------------- *)
\* C13: once InitSession has succeeded (d.conn and d.sigmap are set) the
\* signalsHandler goroutine is running.
C13_LoopRunsAfterInit ==
    (impl = "full" /\ ~panicked /\ conn # 0 /\ sigmapMade) => hpc # "off"

(* -------------------------------- C14 ---------------------------------- *)
\* C14: when the loop takes an occurrence sent by n on interface i with
\* member s, the key it looks up is the key under which
\* ListenSignalFromSender(p, n, i, s) puts the queue.
C14_KeyAgreement ==
    [][ HandlerReceive =>
          \A a \in ListenInputs :
              (/\ a.n = Head(recv).sender
               /\ a.i = Head(recv).iface
               /\ a.s = Head(recv).member)
                 => HandlerKey(Head(recv)) = KeyOf(a) ]_vars

(* -------------------------------- C15 ---------------------------------- *)
\* A ListenSignalFromSender call is past its scan of d.sigsenders and has not
\* returned.
InsideListen == \E u \in Callers : upc[u] # "idle"

\* C15: neither the loop's lookup (line 167) nor GetSignal's (line 155) reads
\* d.sigmap while a ListenSignalFromSender call of another context is between
\* its existence check and the end of its insert.
C15_LookupsExcludeSubscription ==
    [][ (\/ HandlerReceive
         \/ \E c \in Consumers, k \in AllKeys : GetSignalCall(c, k))
            => ~InsideListen ]_vars

\* What the missing exclusion costs: an occurrence that the rule of a call in
\* progress admitted is never dropped for want of the queue that call is
\* about to insert.
C15_NoDropDuringSubscription ==
    [][ (HandlerReceive /\ InsideListen /\ uarg["u1"].n = Head(recv).sender
            /\ KeyOf(uarg["u1"]) = HandlerKey(Head(recv)))
          => hist'.dropped = hist.dropped ]_vars

(* -------------------------------- C16 ---------------------------------- *)
\* C16: two different (sender, signal) pairs whose subscriptions have
\* returned have two different queues, no queue put in the map is replaced,
\* and a ListenSignalFromSender step takes no waiting envelope out of reach:
\* every channel that holds envelopes is still the entry of some key.
C16_DistinctPairsDistinctQueues ==
    /\ \A a, b \in DotInputs :
         (/\ <<a.n, a.s>> # <<b.n, b.s>>
          /\ <<a.n, a.s>> \in hist.pairs /\ <<b.n, b.s>> \in hist.pairs)
            => sigmap[KeyOf(a)] # sigmap[KeyOf(b)]
    /\ hist.replaced = {}
    /\ \A ch \in Chans :
         chans[ch].buf # <<>> => \E k \in AllKeys : sigmap[k] = ch

\* The envelopes that waited in a queue when another pair's subscription
\* replaced it.
C16_PendingDiscarded ==
    \A ch \in hist.replaced : chans[ch].buf = <<>>

(* -------------------------------- C17 ---------------------------------- *)
\* The errors of a failed attempt: connect, name request, name owned.
InitFailures == {"ConnectionError", "RequestNameError", "NameUnavailable"}

\* C17 as stated, of both copies of InitSession: a call on an instance that
\* is not initialised and that fails leaves d.conn, d.sigmap and d.recv
\* unset.
C17_FailedInitLeavesNothingSet ==
    [][ \A s \in SessionTypes, n \in OwnNames :
          (/\ conn = 0
           /\ InitSession("u1", s, n) \/ InitSessionLegacy("u1", s, n)
           /\ ret'["u1"] \in InitFailures)
             => conn' = 0 /\ ~sigmapMade' /\ ~recvMade'
      ]_vars

\* C17 amended: a failed call of the guarded InitSession (lines 43-75) on an
\* instance that is not initialised changes nothing of d, and a call on such
\* an instance is never answered AlreadyInitialized; a call of the unguarded
\* InitSession (lines 202-226) whose connect fails leaves d.conn as it was,
\* and one whose name request fails leaves d.conn set to the connection just
\* opened.
C17_FailedInitByCopy ==
    [][ \A s \in SessionTypes, n \in OwnNames :
          /\ (conn = 0 /\ InitSession("u1", s, n))
                => /\ ret'["u1"] # "AlreadyInitialized"
                   /\ ret'["u1"] \in InitFailures
                         => (UNCHANGED dvars /\ conn' = 0 /\ ~sigmapMade' /\ ~recvMade')
          /\ (InitSessionLegacy("u1", s, n) /\ ret'["u1"] \in InitFailures)
                => /\ UNCHANGED <<recvMade, recv, sigmapMade, sigmap, sigsenders, chans>>
                   /\ IF ret'["u1"] = "ConnectionError"
                      THEN conn' = conn
                      ELSE conn' = connects' /\ conn' # 0
      ]_vars

\* The guarded copy: a first attempt failed at the name request, after its
\* connection was opened, and a later attempt succeeded.
C17_Witness ==
    /\ impl = "full"
    /\ connects = 2 /\ nameReqs >= 1
    /\ conn # 0 /\ sigmapMade /\ recvMade

\* The unguarded copy after a failed name request: d.conn is set.
C17_WitnessLegacy ==
    /\ impl = "legacy"
    /\ ret["u1"] \in {"RequestNameError", "NameUnavailable"}
    /\ conn # 0

(* -------------------------------- C18 ---------------------------------- *)
\* The consumer c, blocked in GetSignal, returns in this step.
Returns(c) == cpc[c] = "recv" /\ cpc'[c] = "idle"

\* C18: a consumer blocked in GetSignal on a queue returns only by taking
\* the envelope at the head of that queue (buffered by the loop before), or,
\* on an unbuffered queue, the one the loop is handing over in that very
\* step; the step returns that envelope's argument list to it, takes exactly
\* that envelope out, and leaves every other queue, the map, d.sigsenders
\* and any other consumer (which does not return in the same step) as they
\* are; and no occurrence is returned twice.
C18_BlockingReceiveTakesTheHead ==
    /\ [][ \A c \in Consumers :
             Returns(c) =>
                LET ch == cch[c] IN
                /\ ch # 0
                /\ \/ /\ chans[ch].buf # <<>>
                      /\ hist'.got = Append(hist.got, <<ch, Head(chans[ch].buf).body>>)
                      /\ chans'[ch].buf = Tail(chans[ch].buf)
                      /\ hist'.enq = hist.enq
                   \/ /\ chans[ch].buf = <<>>
                      /\ chans[ch].cap = UnbufferedCap
                      /\ hpc = "send" /\ hch = ch
                      /\ hist'.got = Append(hist.got, <<ch, ht.body>>)
                      /\ hist'.enq = Append(hist.enq, <<ch, ht.id>>)
                      /\ chans'[ch].buf = <<>>
                /\ \A o \in Chans \ {ch} : chans'[o] = chans[o]
                /\ Len(chans') = Len(chans)
                /\ UNCHANGED <<sigmap, sigsenders, recv>>
                /\ \A o \in Consumers \ {c} :
                       cpc'[o] = cpc[o] /\ cch'[o] = cch[o] /\ cres'[o] = cres[o]
         ]_vars
    /\ [](\A j, k \in DOMAIN hist.got : j # k => hist.got[j][2] # hist.got[k][2])

\* Two consumers were blocked on one queue and one of them has returned with
\* an envelope while the other still waits.
C18_Witness ==
    /\ cpc["c1"] = "idle" /\ cres["c1"] = ""
    /\ cpc["c2"] = "recv"
    /\ hist.got # <<>>
    /\ cch["c2"] = hist.got[Len(hist.got)][1]
    /\ chans[cch["c2"]].buf = <<>>

(* -------------------------------- C19 ---------------------------------- *)
\* C19: once ListenSignalFromSender(p, n, i, s) has returned, the rules at
\* the bus admit a signal of sender n on path p and interface i.
C19_RulesAdmitEverySubscription ==
    \A a \in PathInputs :
        <<a.n, a.s>> \in hist.pairs
            => Admitted([sender |-> a.n, path |-> a.p, iface |-> a.i])

====
